---- MODULE Spec2Model ----
(***************************************************************************)
(* A model of the Salam compiler front end's hash table (src/src/hashmap.c)*)
(* and of its lexer (declared in src/src/lexer.h).                         *)
(*                                                                         *)
(* The hash table is modelled as the C code builds it: an array of         *)
(* capacity buckets, each bucket a chain of entry nodes (head first), each *)
(* node holding an owned key copy and a type-erased value pointer.  Memory *)
(* blocks are tracked in heap, and every call records the releases and     *)
(* destructor invocations it made in call.events.                          *)
(***************************************************************************)
EXTENDS Integers, Sequences, FiniteSets, TLC

(***************************************************************************)
(* Bounds of the model.                                                    *)
(***************************************************************************)
\* how many of the keys of KeyPool the callers use
NumKeys == 3
\* value pointers are NULL and 1..MaxVal
MaxVal == 2
\* hashmap_create is called with a capacity in 1..MaxInitCap
MaxInitCap == 2
\* the lexer scans every text of at most MaxSrcLen bytes over Alphabet
MaxSrcLen == 4
\* and every text of 1..MaxOpLen bytes over OperatorAlphabet
MaxOpLen == 3

(***************************************************************************)
(* Program constants.                                                      *)
(***************************************************************************)
NULL == 0
HashSeed == 5381

\* Keys are C strings, modelled as the sequence of their bytes.  "a", "i"
\* and "q" hash to the same bucket for every capacity of 1, 2, 4 and 8;
\* "ab" shares their bucket only for capacities 1 and 2.
KeyPool == << <<97>>, <<105>>, <<97, 98>>, <<113>>, <<99>>, <<98>> >>

Keys == {KeyPool[i] : i \in 1..NumKeys}

Values == NULL..MaxVal

VARIABLES
    capacity,   \* map->capacity
    length,     \* map->length
    data,       \* map->data: bucket index -> chain of entries, head first
    live,       \* TRUE from hashmap_create until hashmap_destroy_custom
    heap,       \* the memory blocks currently allocated
    call,       \* the last call: its arguments, result and effects
    shadow,     \* the abstract key -> value map the calls describe
    order,      \* history: the keys in the table, in the order of insertion
    rehashed,   \* history: the keys whose entries the last growth has moved
    destroyed,  \* history: the values a destructor has been called on
    source,     \* lexer->source, the bytes of the text
    index,      \* lexer->index, the byte cursor (0-based)
    line,       \* lexer->line
    column,     \* lexer->column
    tokens,     \* lexer->tokens
    pc          \* where lexer_lex is: "none" (no lexer), "scan", "done"

mapVars == <<capacity, length, data, live, heap, call, shadow,
            order, rehashed, destroyed>>
orderVars == <<order, rehashed>>
histVars == <<order, rehashed, destroyed>>
lexVars == <<source, index, line, column, tokens, pc>>
vars == <<capacity, length, data, live, heap, call, shadow,
          order, rehashed, destroyed,
          source, index, line, column, tokens, pc>>

(***************************************************************************)
(* hash_function: DJB2.  The keys of KeyPool are at most two bytes long,   *)
(* so the hash stays far below the width of unsigned long and never wraps. *)
(***************************************************************************)
RECURSIVE HashLoop(_, _)
HashLoop(hash, str) ==
    IF str = <<>> THEN hash
    ELSE HashLoop(((hash * 32) + hash) + Head(str), Tail(str))

hash_function(str) == HashLoop(HashSeed, str)

BucketIndex(key, cap) == hash_function(key) % cap

\* A lookup that compares only as many bytes as the entry's key has
\* (strncmp in place of strcmp): an entry whose key is a prefix matches.
ChainFindPrefix(chain, key) ==
    LET match(n) ==
           /\ Len(chain[n].key) <= Len(key)
           /\ SubSeq(key, 1, Len(chain[n].key)) = chain[n].key
    IN IF \E i \in 1..Len(chain) : match(i)
       THEN CHOOSE i \in 1..Len(chain) :
               /\ match(i)
               /\ \A j \in 1..(i - 1) : ~match(j)
       ELSE 0

\* A lookup with an if in place of the while: only the head of the chain is
\* compared
ChainFindHeadOnly(chain, key) ==
    IF chain # <<>> /\ chain[1].key = key THEN 1 ELSE 0

\* The while loop over a chain with strcmp: the position of the first entry
\* whose key equals key, 0 when the loop runs off the chain.
ChainFind(chain, key) ==
    IF \E i \in 1..Len(chain) : chain[i].key = key
    THEN CHOOSE i \in 1..Len(chain) :
            /\ chain[i].key = key
            /\ \A j \in 1..(i - 1) : chain[j].key # key
    ELSE 0

hashmap_get(d, cap, key) ==
    LET chain == d[BucketIndex(key, cap)]
        i == ChainFind(chain, key)
    IN IF i = 0 THEN NULL ELSE chain[i].value

hashmap_has(d, cap, key) ==
    LET chain == d[BucketIndex(key, cap)]
    IN ChainFind(chain, key) # 0

(***************************************************************************)
(* Memory.  A block is <<kind, name>>; an entry node and its key copy      *)
(* share the node's name, a bucket array is named by its size.             *)
(***************************************************************************)
MapBlock == <<"map", <<>>>>
DataBlock(cap) == <<"data", cap>>
EntryBlock(n) == <<"entry", n>>
KeyBlock(n) == <<"key", n>>

\* memory_allocate / strdup: some block not in use.  A node is named by the
\* key it is allocated for and a serial number, the lowest one no allocated
\* node of that key carries.
NewNode(h, key) ==
    LET used == {b[2][2] : b \in {x \in h : x[1] = "entry" /\ x[2][1] = key}}
    IN <<key, CHOOSE n \in 1..(Cardinality(used) + 1) :
                 /\ n \notin used
                 /\ \A m \in 1..(n - 1) : m \in used>>

Ev(kind, what) == [kind |-> kind, what |-> what]

EmptyData(cap) == [i \in 0..(cap - 1) |-> <<>>]

\* What a call leaves in call: op, its arguments (key, value, and dtor:
\* whether free_fn is not NULL), its result ret, the position pos in its
\* bucket's chain where the key was found (0: not found), whether it grew
\* the table, and the releases and destructor calls it made, in order.
Call(op, key, value, dtor, ret, pos, grew, events) ==
    [op |-> op, key |-> key, value |-> value, dtor |-> dtor, ret |-> ret,
     pos |-> pos, grew |-> grew, events |-> events]

\* memory_destroy on each "free" event of a call
RECURSIVE ReleaseAll(_, _)
ReleaseAll(h, events) ==
    IF events = <<>> THEN h
    ELSE ReleaseAll(IF Head(events).kind = "free"
                    THEN h \ {Head(events).what} ELSE h,
                    Tail(events))

(***************************************************************************)
(* hashmap_create                                                          *)
(***************************************************************************)
MapInit ==
    /\ capacity \in 1..MaxInitCap
    /\ length = 0
    /\ data = EmptyData(capacity)
    /\ live = TRUE
    /\ heap = {MapBlock, DataBlock(capacity)}
    /\ call = Call("create", <<>>, NULL, FALSE, NULL, 0, FALSE, <<>>)
    /\ shadow = <<>>
    /\ order = <<>>
    /\ rehashed = {}
    /\ destroyed = {}

\* no table has been created
MapNone ==
    /\ capacity = 1
    /\ length = 0
    /\ data = EmptyData(capacity)
    /\ live = FALSE
    /\ heap = {}
    /\ call = Call("none", <<>>, NULL, FALSE, NULL, 0, FALSE, <<>>)
    /\ shadow = <<>>
    /\ order = <<>>
    /\ rehashed = {}
    /\ destroyed = {}

\* no lexer has been created
LexNone ==
    /\ source = <<>>
    /\ index = 0
    /\ line = 1
    /\ column = 1
    /\ tokens = <<>>
    /\ pc = "none"

Init == MapInit /\ LexNone

(***************************************************************************)
(* hashmap_put_custom                                                      *)
(***************************************************************************)
\* A threshold test with > in place of >=
NeedsGrowStrict(len, cap) == 4 * len > 3 * cap

\* A growth test against a load factor of 0.5
NeedsGrowAtHalf(len, cap) == 2 * len >= cap

\* (float)map->length / map->capacity >= 0.75; exact for the sizes modelled
NeedsGrow(len, cap) == 4 * len >= 3 * cap

\* A link that leaves new_entry->next unset: the bucket's old chain is lost
LinkEntryDropsChain(d, bucket, entry) == [d EXCEPT ![bucket] = <<entry>>]

\* A link at the tail of the bucket's chain instead of its head
LinkEntryAtTail(d, bucket, entry) == [d EXCEPT ![bucket] = @ \o <<entry>>]

\* lines 96-102: the new entry is linked in front of its bucket's chain
LinkEntry(d, bucket, entry) == [d EXCEPT ![bucket] = <<entry>> \o @]

\* A rehash loop that does not go on to the saved next node: only the head
\* of each old chain is moved
RehashChainLosesTail(new_data, chain, new_length) ==
    IF chain = <<>> THEN new_data
    ELSE LET entry == Head(chain)
             new_index == hash_function(entry.key) % new_length
         IN [new_data EXCEPT ![new_index] = <<entry>> \o @]

\* A rehash loop that takes the new index modulo the old capacity
\* (map->capacity in place of new_length)
RECURSIVE RehashChainOldIndex(_, _, _)
RehashChainOldIndex(new_data, chain, new_length) ==
    IF chain = <<>> THEN new_data
    ELSE LET entry == Head(chain)
             new_index == hash_function(entry.key) % (new_length \div 2)
         IN RehashChainOldIndex(
               [new_data EXCEPT ![new_index] = <<entry>> \o @],
               Tail(chain), new_length)

\* lines 113-120: one old chain is walked from its head, each node pushed
\* on the front of its new bucket
RECURSIVE RehashChain(_, _, _)
RehashChain(new_data, chain, new_length) ==
    IF chain = <<>> THEN new_data
    ELSE LET entry == Head(chain)
             new_index == BucketIndex(entry.key, new_length)
         IN RehashChain([new_data EXCEPT ![new_index] = <<entry>> \o @],
                        Tail(chain), new_length)

RECURSIVE RehashFrom(_, _, _, _, _)
RehashFrom(new_data, d, i, cap, new_length) ==
    IF i >= cap THEN new_data
    ELSE RehashFrom(RehashChain(new_data, d[i], new_length),
                    d, i + 1, cap, new_length)

\* lines 107-121
Rehash(d, cap, new_length) ==
    RehashFrom(EmptyData(new_length), d, 0, cap, new_length)

\* An overwrite that does not test free_fn against NULL
OverwriteEventsAlways(old, dtor) == <<Ev("dtor", old)>>

\* lines 84-88: the destructor runs on the old value unless it is NULL
OverwriteEvents(old, dtor) ==
    IF dtor THEN <<Ev("dtor", old)>> ELSE <<>>

ShadowPut(s, key, value) ==
    [k \in (DOMAIN s) \cup {key} |-> IF k = key THEN value ELSE s[k]]

ShadowRemove(s, key) == [k \in (DOMAIN s) \ {key} |-> s[k]]

\* lines 123-125: growth releases the old bucket array
GrowEvents(cap, grow) ==
    IF grow THEN <<Ev("free", DataBlock(cap))>> ELSE <<>>

Put(key, value, dtor) ==
    LET bucket == BucketIndex(key, capacity)
        chain == data[bucket]
        i == ChainFind(chain, key)
        node == NewNode(heap, key)
        new_entry == [node |-> node, key |-> key, value |-> value]
        linked == LinkEntry(data, bucket, new_entry)
        grow == NeedsGrow(length + 1, capacity)
    IN /\ live
       /\ UNCHANGED lexVars
       /\ shadow' = ShadowPut(shadow, key, value)
       /\ live' = live
       /\ IF i # 0
          THEN /\ data' = [data EXCEPT ![bucket][i].value = value]
               /\ UNCHANGED <<capacity, length, heap>>
               /\ call' = Call("put", key, value, dtor, NULL, i, FALSE,
                               OverwriteEvents(chain[i].value, dtor))
          ELSE /\ length' = length + 1
               /\ IF grow
                  THEN /\ data' = Rehash(linked, capacity, capacity * 2)
                       /\ capacity' = capacity * 2
                       /\ heap' = ReleaseAll(
                              heap \cup {EntryBlock(node), KeyBlock(node),
                                         DataBlock(capacity * 2)},
                              GrowEvents(capacity, grow))
                  ELSE /\ data' = linked
                       /\ capacity' = capacity
                       /\ heap' = heap \cup {EntryBlock(node), KeyBlock(node)}
               /\ call' = Call("put", key, value, dtor, NULL, 0, grow,
                               GrowEvents(capacity, grow))

(***************************************************************************)
(* hashmap_get, hashmap_has                                                *)
(***************************************************************************)
\* A lookup that moves the entry it finds to the head of its chain
GetMovesToFront(key) ==
    LET bucket == BucketIndex(key, capacity)
        chain == data[bucket]
        i == ChainFind(chain, key)
    IN /\ live
       /\ call' = Call("get", key, NULL, FALSE,
                       hashmap_get(data, capacity, key), i, FALSE, <<>>)
       /\ data' = IF i = 0 THEN data
                  ELSE [data EXCEPT ![bucket] =
                          <<chain[i]>> \o SubSeq(chain, 1, i - 1)
                                       \o SubSeq(chain, i + 1, Len(chain))]
       /\ UNCHANGED <<capacity, length, live, heap, shadow>>
       /\ UNCHANGED lexVars

Get(key) ==
    /\ live
    /\ call' = Call("get", key, NULL, FALSE,
                    hashmap_get(data, capacity, key),
                    ChainFind(data[BucketIndex(key, capacity)], key),
                    FALSE, <<>>)
    /\ UNCHANGED <<capacity, length, data, live, heap, shadow>>
    /\ UNCHANGED lexVars

Has(key) ==
    /\ live
    /\ call' = Call("has", key, NULL, FALSE,
                    hashmap_has(data, capacity, key),
                    ChainFind(data[BucketIndex(key, capacity)], key),
                    FALSE, <<>>)
    /\ UNCHANGED <<capacity, length, data, live, heap, shadow>>
    /\ UNCHANGED lexVars

(***************************************************************************)
(* hashmap_remove                                                          *)
(***************************************************************************)
\* An unlink that always sets the bucket head to the entry's successor,
\* whether or not the entry has a predecessor
UnlinkFromHead(chain, i) == SubSeq(chain, i + 1, Len(chain))

\* An unlink that handles only an entry without predecessor: for any other
\* entry the predecessor's link is left as it was
UnlinkOnlyHead(chain, i) == IF i = 1 THEN Tail(chain) ELSE chain

\* lines 205-210: the head is replaced by its successor, or the
\* predecessor's link skips the entry
Unlink(chain, i) == SubSeq(chain, 1, i - 1) \o SubSeq(chain, i + 1, Len(chain))

\* A remove that releases the node and not its key copy
RemoveEventsLeakKey(entry) == <<Ev("free", EntryBlock(entry.node))>>

\* lines 216-222
RemoveEvents(entry) ==
    <<Ev("free", KeyBlock(entry.node)), Ev("free", EntryBlock(entry.node))>>

Remove(key) ==
    LET bucket == BucketIndex(key, capacity)
        chain == data[bucket]
        i == ChainFind(chain, key)
    IN /\ live
       /\ UNCHANGED lexVars
       /\ shadow' = ShadowRemove(shadow, key)
       /\ UNCHANGED <<capacity, live>>
       /\ IF i # 0
          THEN /\ data' = [data EXCEPT ![bucket] = Unlink(chain, i)]
               /\ length' = length - 1
               /\ heap' = ReleaseAll(heap, RemoveEvents(chain[i]))
               /\ call' = Call("remove", key, NULL, FALSE, chain[i].value,
                               i, FALSE, RemoveEvents(chain[i]))
          ELSE /\ UNCHANGED <<data, length, heap>>
               /\ call' = Call("remove", key, NULL, FALSE, NULL, 0, FALSE,
                               <<>>)

(***************************************************************************)
(* hashmap_destroy_custom                                                  *)
(***************************************************************************)
\* A destroy loop that skips the destructor for a NULL value, as the
\* layout-attribute variants of the loop do
RECURSIVE DestroyChainSkipsNull(_)
DestroyChainSkipsNull(chain) ==
    IF chain = <<>> THEN <<>>
    ELSE LET entry == Head(chain)
         IN <<Ev("free", KeyBlock(entry.node))>>
               \o (IF entry.value # NULL
                   THEN <<Ev("dtor", entry.value)>> ELSE <<>>)
               \o <<Ev("free", EntryBlock(entry.node))>>
               \o DestroyChainSkipsNull(Tail(chain))

\* lines 267-277: per entry, the key is released, the destructor runs on the
\* value, the node is released
RECURSIVE DestroyChain(_)
DestroyChain(chain) ==
    IF chain = <<>> THEN <<>>
    ELSE LET entry == Head(chain)
         IN <<Ev("free", KeyBlock(entry.node)), Ev("dtor", entry.value),
              Ev("free", EntryBlock(entry.node))>> \o DestroyChain(Tail(chain))

RECURSIVE DestroyFrom(_, _, _)
DestroyFrom(d, i, cap) ==
    IF i >= cap THEN <<>>
    ELSE DestroyChain(d[i]) \o DestroyFrom(d, i + 1, cap)

\* lines 262-284
DestroyEvents(d, cap) ==
    DestroyFrom(d, 0, cap)
        \o <<Ev("free", DataBlock(cap)), Ev("free", MapBlock)>>

\* free_fn is called unconditionally, so the destructor is never NULL here
Destroy ==
    /\ live
    /\ live' = FALSE
    /\ call' = Call("destroy", <<>>, NULL, TRUE, NULL, 0, FALSE,
                    DestroyEvents(data, capacity))
    /\ heap' = ReleaseAll(heap, DestroyEvents(data, capacity))
    /\ UNCHANGED <<capacity, length, data, shadow>>
    /\ UNCHANGED lexVars

Next ==
    \/ \E key \in Keys, value \in Values, dtor \in BOOLEAN :
          Put(key, value, dtor) /\ UNCHANGED histVars
    \/ \E key \in Keys : Get(key) /\ UNCHANGED histVars
    \/ \E key \in Keys : Has(key) /\ UNCHANGED histVars
    \/ \E key \in Keys : Remove(key) /\ UNCHANGED histVars
    \/ Destroy /\ UNCHANGED histVars

Spec == Init /\ [][Next]_vars

(***************************************************************************)
(* The same calls with the history of insertions recorded: order is the    *)
(* sequence of the keys in the table, oldest insertion first (a put of a   *)
(* present key is an overwrite, not an insertion), and rehashed is the set *)
(* of the keys whose entries the last growth has moved to a new array.     *)
(***************************************************************************)
KeysOf(seq) == {seq[n] : n \in 1..Len(seq)}

Without(seq, key) == SelectSeq(seq, LAMBDA k : k # key)

OrderPut(key) ==
    IF ChainFind(data[BucketIndex(key, capacity)], key) # 0
    THEN UNCHANGED orderVars
    ELSE /\ order' = Append(order, key)
         /\ rehashed' = IF capacity' # capacity THEN KeysOf(order')
                                                 ELSE rehashed

OrderRemove(key) ==
    /\ order' = Without(order, key)
    /\ rehashed' = rehashed \ {key}

\* the order of a chain does not depend on the values stored: two values,
\* enough for an overwrite to change one
OrderValues == {NULL, MaxVal}

OrderNext ==
    \/ \E key \in Keys, value \in OrderValues, dtor \in BOOLEAN :
          Put(key, value, dtor) /\ OrderPut(key)
             /\ UNCHANGED destroyed
    \/ \E key \in Keys : Get(key) /\ UNCHANGED histVars
    \/ \E key \in Keys : Has(key) /\ UNCHANGED histVars
    \/ \E key \in Keys : Remove(key) /\ OrderRemove(key)
                          /\ UNCHANGED destroyed
    \/ Destroy /\ UNCHANGED histVars

OrderSpec == Init /\ [][OrderNext]_vars

(***************************************************************************)
(* The same calls with the destructor calls recorded: destroyed is the set *)
(* of the values (NULL aside) that free_fn has been called on.  A value    *)
(* the caller passes to a put while no entry holds it is a new object,     *)
(* whatever was destroyed at its address before.  Every put is given a     *)
(* destructor, as hashmap_put gives free.                                  *)
(***************************************************************************)
StoredValues == {e.value : e \in UNION {{data[i][j] : j \in 1..Len(data[i])} :
                                         i \in 0..(capacity - 1)}}

DtorValues(events) ==
    {events[n].what : n \in {m \in 1..Len(events) : events[m].kind = "dtor"}}

DtorRecord(passed) ==
    destroyed' = ((destroyed \ (passed \ StoredValues))
                     \cup DtorValues(call'.events)) \ {NULL}

DtorNext ==
    \/ \E key \in Keys, value \in Values :
          Put(key, value, TRUE) /\ DtorRecord({value})
                                /\ UNCHANGED orderVars
    \/ \E key \in Keys : Get(key) /\ UNCHANGED histVars
    \/ \E key \in Keys : Has(key) /\ UNCHANGED histVars
    \/ \E key \in Keys : Remove(key) /\ DtorRecord({})
                                      /\ UNCHANGED orderVars
    \/ Destroy /\ DtorRecord({}) /\ UNCHANGED orderVars

DtorSpec == Init /\ [][DtorNext]_vars

(***************************************************************************)
(* The lexer.  src/src/lexer.h declares its types, its token types and its *)
(* keyword table; the scanning functions themselves are defined outside    *)
(* src/ and are modelled here from the specification (section 4.2).        *)
(***************************************************************************)
\* token_type_t
TOKEN_EOF == -1
TOKEN_PLUS == 43
TOKEN_ASSIGN == 61
TOKEN_LESS == 60
TOKEN_GREATER == 62
TOKEN_NOT == 33
TOKEN_NOT_EQUAL == 300
TOKEN_EQUAL == 301
TOKEN_AND_AND == 302
TOKEN_OR_OR == 303
TOKEN_AND_BIT == 304
TOKEN_OR_BIT == 305
TOKEN_LESS_EQUAL == 306
TOKEN_GREATER_EQUAL == 307
TOKEN_INCREMENT == 308
TOKEN_DECREMENT == 309
TOKEN_SHIFT_LEFT == 310
TOKEN_SHIFT_RIGHT == 311
TOKEN_SHIFT_LEFT_ASSIGN == 312
TOKEN_SHIFT_RIGHT_ASSIGN == 313
TOKEN_IDENTIFIER == 314
TOKEN_STRING == 315
TOKEN_NUMBER_INT == 316
TOKEN_NUMBER_FLOAT == 317
TOKEN_BOOLEAN == 318
TOKEN_LAYOUT == 319
TOKEN_IMPORT == 320
TOKEN_FUNCTION == 321
TOKEN_RETURN == 322
TOKEN_PRINT == 323
TOKEN_IF == 324
TOKEN_ELSE == 325
TOKEN_WHILE == 326
TOKEN_FOR == 327
TOKEN_BREAK == 328
TOKEN_CONTINUE == 329
TOKEN_ERROR == 330

\* the single-character tokens, whose type is the character:
\* { } [ ] : , ( ) + - * / % ^ = < > !
SingleCharTokens ==
    {123, 125, 91, 93, 58, 44, 40, 41, 43, 45, 42, 47, 37, 94,
     TOKEN_ASSIGN, TOKEN_LESS, TOKEN_GREATER, TOKEN_NOT}

\* A table whose last entry, "false", is missing
keywordsWithoutFalse ==
    << [name |-> <<108, 97, 121, 111, 117, 116>>, type |-> TOKEN_LAYOUT],
       [name |-> <<105, 109, 112, 111, 114, 116>>, type |-> TOKEN_IMPORT],
       [name |-> <<102, 110>>, type |-> TOKEN_FUNCTION],
       [name |-> <<114, 101, 116, 117, 114, 110>>, type |-> TOKEN_RETURN],
       [name |-> <<105, 102>>, type |-> TOKEN_IF],
       [name |-> <<112, 114, 105, 110, 116>>, type |-> TOKEN_PRINT],
       [name |-> <<101, 108, 115, 101>>, type |-> TOKEN_ELSE],
       [name |-> <<119, 104, 105, 108, 101>>, type |-> TOKEN_WHILE],
       [name |-> <<102, 111, 114>>, type |-> TOKEN_FOR],
       [name |-> <<98, 114, 101, 97, 107>>, type |-> TOKEN_BREAK],
       [name |-> <<99, 111, 110, 116, 105, 110, 117, 101>>,
        type |-> TOKEN_CONTINUE],
       [name |-> <<116, 114, 117, 101>>, type |-> TOKEN_BOOLEAN] >>

\* keywords[], in declaration order: layout import fn return if print else
\* while for break continue true false
keywords ==
    << [name |-> <<108, 97, 121, 111, 117, 116>>, type |-> TOKEN_LAYOUT],
       [name |-> <<105, 109, 112, 111, 114, 116>>, type |-> TOKEN_IMPORT],
       [name |-> <<102, 110>>, type |-> TOKEN_FUNCTION],
       [name |-> <<114, 101, 116, 117, 114, 110>>, type |-> TOKEN_RETURN],
       [name |-> <<105, 102>>, type |-> TOKEN_IF],
       [name |-> <<112, 114, 105, 110, 116>>, type |-> TOKEN_PRINT],
       [name |-> <<101, 108, 115, 101>>, type |-> TOKEN_ELSE],
       [name |-> <<119, 104, 105, 108, 101>>, type |-> TOKEN_WHILE],
       [name |-> <<102, 111, 114>>, type |-> TOKEN_FOR],
       [name |-> <<98, 114, 101, 97, 107>>, type |-> TOKEN_BREAK],
       [name |-> <<99, 111, 110, 116, 105, 110, 117, 101>>,
        type |-> TOKEN_CONTINUE],
       [name |-> <<116, 114, 117, 101>>, type |-> TOKEN_BOOLEAN],
       [name |-> <<102, 97, 108, 115, 101>>, type |-> TOKEN_BOOLEAN] >>

\* the multi-character operators and the two single ones with a type of
\* their own: <<= >>= != == && || <= >= ++ -- << >> & |
Operators ==
    { [text |-> <<60, 60, 61>>, type |-> TOKEN_SHIFT_LEFT_ASSIGN],
      [text |-> <<62, 62, 61>>, type |-> TOKEN_SHIFT_RIGHT_ASSIGN],
      [text |-> <<33, 61>>, type |-> TOKEN_NOT_EQUAL],
      [text |-> <<61, 61>>, type |-> TOKEN_EQUAL],
      [text |-> <<38, 38>>, type |-> TOKEN_AND_AND],
      [text |-> <<124, 124>>, type |-> TOKEN_OR_OR],
      [text |-> <<60, 61>>, type |-> TOKEN_LESS_EQUAL],
      [text |-> <<62, 61>>, type |-> TOKEN_GREATER_EQUAL],
      [text |-> <<43, 43>>, type |-> TOKEN_INCREMENT],
      [text |-> <<45, 45>>, type |-> TOKEN_DECREMENT],
      [text |-> <<60, 60>>, type |-> TOKEN_SHIFT_LEFT],
      [text |-> <<62, 62>>, type |-> TOKEN_SHIFT_RIGHT],
      [text |-> <<38>>, type |-> TOKEN_AND_BIT],
      [text |-> <<124>>, type |-> TOKEN_OR_BIT] }
    \cup {[text |-> <<c>>, type |-> c] : c \in SingleCharTokens}

\* is_char_digit, is_char_alpha, is_char_alnum, is_char_whitespace
DigitChars == 48..57
AlphaChars == (65..90) \cup (97..122) \cup {95}
AlnumChars == AlphaChars \cup DigitChars
WhitespaceChars == {32, 9, 10}
NewlineChars == {10}
QuoteChars == {34}
DotChars == {46}
OperatorChars == {op.text[1] : op \in Operators}

\* The bytes the scanned texts are made of: a 1 . " space newline < = @
Alphabet == {97, 49, 46, 34, 32, 10, 60, 61, 64}

RECURSIVE TextsOfLen(_)
TextsOfLen(n) ==
    IF n = 0 THEN {<<>>}
    ELSE {Append(t, c) : t \in TextsOfLen(n - 1), c \in Alphabet}

\* The bytes of the operators spelled with more than one: < > = ! & | + -
OperatorAlphabet == {60, 62, 61, 33, 38, 124, 43, 45}

RECURSIVE OperatorTextsOfLen(_)
OperatorTextsOfLen(n) ==
    IF n = 0 THEN {<<>>}
    ELSE {Append(t, c) : t \in OperatorTextsOfLen(n - 1),
                         c \in OperatorAlphabet}

\* every keyword, alone, with a letter after it, and without its last letter
KeywordTexts ==
    UNION {{keywords[n].name,
            Append(keywords[n].name, 97),
            SubSeq(keywords[n].name, 1, Len(keywords[n].name) - 1)} :
           n \in 1..Len(keywords)}

\* x = 12 + 3.5
\* a<<=1
\* true false
\* if a!=1 &&
\* {}[]:,()*/%^
\* two lines, the first ending in a string that goes over the line end
ExampleTexts ==
    { <<120, 32, 61, 32, 49, 50, 32, 43, 32, 51, 46, 53>>,
      <<97, 60, 60, 61, 49>>,
      <<116, 114, 117, 101, 32, 102, 97, 108, 115, 101>>,
      <<105, 102, 32, 97, 33, 61, 49, 32, 38, 38>>,
      <<123, 125, 91, 93, 58, 44, 40, 41, 42, 47, 37, 94>>,
      <<97, 9, 34, 97, 10, 97, 34, 10, 49>> }

Sources ==
    UNION {TextsOfLen(n) : n \in 0..MaxSrcLen}
       \cup UNION {OperatorTextsOfLen(n) : n \in 1..MaxOpLen}
       \cup KeywordTexts
       \cup ExampleTexts

\* the decimal value of a run of digits
RECURSIVE ParseInt(_)
ParseInt(digits) ==
    IF digits = <<>> THEN 0
    ELSE 10 * ParseInt(SubSeq(digits, 1, Len(digits) - 1))
            + (digits[Len(digits)] - 48)

\* the value of digits . digits, as a numerator over a power of ten
ParseFloat(text) ==
    LET dot == CHOOSE n \in 1..Len(text) : text[n] \in DotChars
    IN [num |-> ParseInt(SubSeq(text, 1, dot - 1)
                           \o SubSeq(text, dot + 1, Len(text))),
        den |-> 10^(Len(text) - dot)]

\* the member of token_t's data union a token of the given type carries,
\* and its value
TokenData(type, text) ==
    IF type = TOKEN_BOOLEAN
    THEN [variant |-> "boolean", value |-> (text = <<116, 114, 117, 101>>)]
    ELSE IF type = TOKEN_IDENTIFIER
    THEN [variant |-> "string", value |-> text]
    ELSE IF type = TOKEN_STRING
    THEN [variant |-> "string", value |-> SubSeq(text, 2, Len(text) - 1)]
    ELSE IF type = TOKEN_NUMBER_INT
    THEN [variant |-> "number_int", value |-> ParseInt(text)]
    ELSE IF type = TOKEN_NUMBER_FLOAT
    THEN [variant |-> "number_float", value |-> ParseFloat(text)]
    ELSE [variant |-> "none", value |-> NULL]

\* A token whose location is taken after the cursor has moved over it
TokenLocatedAtEnd(type, at, len, sl, sc, el, ec, text) ==
    [type |-> type, index |-> at + len, length |-> len,
     start_line |-> el, start_column |-> ec,
     end_line |-> el, end_column |-> ec, text |-> text,
     data |-> TokenData(type, text)]

\* location_t and token_t: the type, the span, the lexeme's bytes and the
\* payload
Token(type, at, len, sl, sc, el, ec, text) ==
    [type |-> type, index |-> at, length |-> len,
     start_line |-> sl, start_column |-> sc,
     end_line |-> el, end_column |-> ec, text |-> text,
     data |-> TokenData(type, text)]

\* the bytes from cursor position from up to, not including, position to
Lexeme(src, from, to) == SubSeq(src, from + 1, to)

\* the first cursor position at or after from whose byte is not in class
RECURSIVE RunEnd(_, _, _)
RunEnd(src, from, class) ==
    IF from < Len(src) /\ src[from + 1] \in class
    THEN RunEnd(src, from + 1, class)
    ELSE from

\* A position update whose newline branch leaves the column counting on
RECURSIVE AdvancePosNoReset(_, _, _, _, _)
AdvancePosNoReset(src, from, to, ln, col) ==
    IF from >= to THEN [line |-> ln, column |-> col]
    ELSE IF src[from + 1] \in NewlineChars
         THEN AdvancePosNoReset(src, from + 1, to, ln + 1, col + 1)
         ELSE AdvancePosNoReset(src, from + 1, to, ln, col + 1)

\* line and column after the bytes from..to-1 are consumed: a newline adds
\* one to the line and resets the column
RECURSIVE AdvancePos(_, _, _, _, _)
AdvancePos(src, from, to, ln, col) ==
    IF from >= to THEN [line |-> ln, column |-> col]
    ELSE IF src[from + 1] \in NewlineChars
         THEN AdvancePos(src, from + 1, to, ln + 1, 1)
         ELSE AdvancePos(src, from + 1, to, ln, col + 1)

\* type_keyword: the table is searched in declaration order
RECURSIVE KeywordFrom(_, _)
KeywordFrom(word, n) ==
    IF n > Len(keywords) THEN TOKEN_IDENTIFIER
    ELSE IF keywords[n].name = word THEN keywords[n].type
         ELSE KeywordFrom(word, n + 1)

type_keyword(word) == KeywordFrom(word, 1)

\* lexer_create
LexCreate ==
    /\ source \in Sources
    /\ index = 0
    /\ line = 1
    /\ column = 1
    /\ tokens = <<>>
    /\ pc = "scan"

LexInit == LexCreate /\ MapNone

AtByte == pc = "scan" /\ index < Len(source)

\* The cursor moves to position to; a token of the given type spanning the
\* bytes consumed is appended.
Emit(type, to) ==
    LET pos == AdvancePos(source, index, to, line, column)
    IN /\ tokens' = Append(tokens,
                           Token(type, index, to - index, line, column,
                                 pos.line, pos.column,
                                 Lexeme(source, index, to)))
       /\ index' = to
       /\ line' = pos.line
       /\ column' = pos.column
       /\ UNCHANGED <<source, pc>>
       /\ UNCHANGED mapVars

\* A whitespace branch that does not move the cursor
LexWhitespaceStuck ==
    /\ AtByte
    /\ source[index + 1] \in WhitespaceChars
    /\ UNCHANGED <<source, index, line, column, tokens, pc>>
    /\ UNCHANGED mapVars

\* whitespace is skipped and produces no token
LexWhitespace ==
    /\ AtByte
    /\ source[index + 1] \in WhitespaceChars
    /\ LET pos == AdvancePos(source, index, index + 1, line, column)
       IN /\ index' = index + 1
          /\ line' = pos.line
          /\ column' = pos.column
    /\ UNCHANGED <<source, tokens, pc>>
    /\ UNCHANGED mapVars

\* lexer_lex_identifier: a letter or underscore, then letters, digits and
\* underscores; the lexeme is looked up in the keyword table
LexIdentifier ==
    /\ AtByte
    /\ source[index + 1] \in AlphaChars
    /\ LET to == RunEnd(source, index, AlnumChars)
       IN Emit(type_keyword(Lexeme(source, index, to)), to)

\* The numeric lexeme is the run of digits and dots; it is an integer
\* without a dot, a float with one dot that digits follow, and malformed
\* otherwise.
NumberType(text) ==
    LET dots == {n \in 1..Len(text) : text[n] \in DotChars}
    IN IF dots = {} THEN TOKEN_NUMBER_INT
       ELSE IF Cardinality(dots) = 1 /\ text[Len(text)] \in DigitChars
            THEN TOKEN_NUMBER_FLOAT
            ELSE TOKEN_ERROR

\* lexer_lex_number
LexNumber ==
    /\ AtByte
    /\ source[index + 1] \in DigitChars
    /\ LET to == RunEnd(source, index, DigitChars \cup DotChars)
       IN Emit(NumberType(Lexeme(source, index, to)), to)

\* the cursor position of the closing quote of the string opened at from,
\* Len(src) when the text ends before one
ClosingQuote(src, from) == RunEnd(src, from + 1, (0..255) \ QuoteChars)

\* A string scan that gives up at the end of the text: no token, scan over
LexStringAborts ==
    /\ AtByte
    /\ source[index + 1] \in QuoteChars
    /\ LET close == ClosingQuote(source, index)
       IN IF close < Len(source)
          THEN Emit(TOKEN_STRING, close + 1)
          ELSE /\ pc' = "done"
               /\ UNCHANGED <<source, index, line, column, tokens>>
               /\ UNCHANGED mapVars

\* lexer_lex_string: the text up to the closing quote is taken verbatim;
\* a string the text ends in is an error token
LexString ==
    /\ AtByte
    /\ source[index + 1] \in QuoteChars
    /\ LET close == ClosingQuote(source, index)
       IN IF close < Len(source)
          THEN Emit(TOKEN_STRING, close + 1)
          ELSE Emit(TOKEN_ERROR, Len(source))

\* the operators that match the bytes at the cursor
MatchingOperators(src, from) ==
    {op \in Operators :
        /\ from + Len(op.text) <= Len(src)
        /\ Lexeme(src, from, from + Len(op.text)) = op.text}

\* An operator scan without lookahead: the form of one byte is taken
ShortestOperator(src, from) ==
    CHOOSE op \in MatchingOperators(src, from) : Len(op.text) = 1

\* the longest of them
LongestOperator(src, from) ==
    CHOOSE op \in MatchingOperators(src, from) :
        \A other \in MatchingOperators(src, from) :
            Len(other.text) <= Len(op.text)

LexOperator ==
    /\ AtByte
    /\ source[index + 1] \in OperatorChars
    /\ LET op == LongestOperator(source, index)
       IN Emit(op.type, index + Len(op.text))

\* any other byte is an error token of its own
LexUnknown ==
    /\ AtByte
    /\ source[index + 1] \notin
          WhitespaceChars \cup AlphaChars \cup DigitChars
             \cup QuoteChars \cup OperatorChars
    /\ Emit(TOKEN_ERROR, index + 1)

\* the cursor has passed the last byte: the end-of-input token
LexEnd ==
    /\ pc = "scan"
    /\ index >= Len(source)
    /\ tokens' = Append(tokens,
                        Token(TOKEN_EOF, index, 0, line, column,
                              line, column, <<>>))
    /\ pc' = "done"
    /\ UNCHANGED <<source, index, line, column>>
    /\ UNCHANGED mapVars

\* lexer_lex: one iteration of its loop
LexNext ==
    \/ LexWhitespace
    \/ LexIdentifier
    \/ LexNumber
    \/ LexString
    \/ LexOperator
    \/ LexUnknown
    \/ LexEnd

\* lexer_lex runs its loop until it ends
LexSpec == LexInit /\ [][LexNext]_vars /\ WF_vars(LexNext)

(***************************************************************************)
(* What the claims speak of.                                               *)
(***************************************************************************)
\* the entry nodes linked in the bucket chains
Entries(d, cap) ==
    UNION {{d[i][j] : j \in 1..Len(d[i])} : i \in 0..(cap - 1)}

RECURSIVE NodeCountFrom(_, _, _)
NodeCountFrom(d, i, cap) ==
    IF i >= cap THEN 0 ELSE Len(d[i]) + NodeCountFrom(d, i + 1, cap)

\* how many entry nodes are linked in the bucket chains
NodeCount(d, cap) == NodeCountFrom(d, 0, cap)

\* key is in the table: some linked entry holds it
Present(d, cap, key) == \E e \in Entries(d, cap) : e.key = key

\* how often a call made the event ev
CountEv(events, ev) == Cardinality({n \in 1..Len(events) : events[n] = ev})

DtorCalls(events) == {n \in 1..Len(events) : events[n].kind = "dtor"}

\* what the abstract map answers for key
AbstractGet(s, key) == IF key \in DOMAIN s THEN s[key] ELSE NULL

(***************************************************************************)
(* C1: after any sequence of hashmap_put_custom and hashmap_remove calls,  *)
(* hashmap_get(k) is, for every key k, the value of the most recent put of *)
(* k, and NULL when k was never put or was removed since (shadow is the    *)
(* abstract map those calls describe); a hashmap_get call returns it.      *)
(***************************************************************************)
C1_LastWriterWins ==
    live =>
      /\ \A k \in Keys : hashmap_get(data, capacity, k) = AbstractGet(shadow, k)
      /\ call.op = "get" => call.ret = AbstractGet(shadow, call.key)

\* a get finds, behind another entry of its chain, a value that was put
C1_Witness ==
    /\ call.op = "get"
    /\ call.pos >= 2
    /\ call.ret # NULL
    /\ call.ret = shadow[call.key]
    /\ \E k \in Keys : k \notin DOMAIN shadow

(***************************************************************************)
(* C2: when hashmap_put_custom has returned, whether it inserted or        *)
(* overwrote, length / capacity < 0.75.                                    *)
(***************************************************************************)
C2_LoadFactorAfterPut ==
    call.op = "put" => 4 * length < 3 * capacity

\* a put whose insert reached the threshold and grew the table
C2_Witness ==
    /\ call.op = "put"
    /\ call.grew
    /\ length >= 2

(***************************************************************************)
(* C3: a growth loses, duplicates and changes no entry: the entries linked *)
(* after a put that grew are those linked before the put and the one new   *)
(* entry of the put's key and value, each linked once, and length counts   *)
(* them.                                                                   *)
(***************************************************************************)
C3_GrowthPreservesEntries ==
    [][(call'.op = "put" /\ call'.grew) =>
         /\ Entries(data, capacity) \subseteq Entries(data', capacity')
         /\ \E e \in Entries(data', capacity') :
               /\ e.key = call'.key
               /\ e.value = call'.value
               /\ Entries(data', capacity')
                     = Entries(data, capacity) \cup {e}
         /\ NodeCount(data', capacity') = NodeCount(data, capacity) + 1
         /\ length' = length + 1
         /\ length' = NodeCount(data', capacity')]_vars

\* a growth that rehashed three entries into more than one bucket
C3_Witness ==
    /\ call.op = "put"
    /\ call.grew
    /\ length >= 3
    /\ Cardinality({i \in 0..(capacity - 1) : data[i] # <<>>}) >= 2

(***************************************************************************)
(* C4: two distinct keys that were put, not removed since, and hash to the *)
(* same bucket are both retrieved with their own values, and               *)
(* hashmap_remove of one returns its value and leaves the other present    *)
(* with its value, wherever in the chain the removed one is.               *)
(***************************************************************************)
Collide(k1, k2) ==
    /\ k1 # k2
    /\ k1 \in DOMAIN shadow
    /\ k2 \in DOMAIN shadow
    /\ BucketIndex(k1, capacity) = BucketIndex(k2, capacity)

C4_Retrievable ==
    \A k1 \in DOMAIN shadow : \A k2 \in DOMAIN shadow :
       (live /\ Collide(k1, k2)) =>
          /\ hashmap_has(data, capacity, k1)
          /\ hashmap_has(data, capacity, k2)
          /\ hashmap_get(data, capacity, k1) = shadow[k1]
          /\ hashmap_get(data, capacity, k2) = shadow[k2]

C4_RemoveStep ==
    call'.op = "remove" =>
       \A k2 \in DOMAIN shadow :
          Collide(call'.key, k2) =>
             /\ call'.ret = shadow[call'.key]
             /\ hashmap_has(data', capacity', k2)
             /\ hashmap_get(data', capacity', k2) = shadow[k2]
             /\ ~hashmap_has(data', capacity', call'.key)

C4_CollidingKeysIndependent ==
    /\ []C4_Retrievable
    /\ [][C4_RemoveStep]_vars

\* a remove took a key from behind the head of its chain, and another key
\* of that bucket is still there
C4_Witness ==
    /\ call.op = "remove"
    /\ call.pos >= 2
    /\ \E k2 \in DOMAIN shadow :
          /\ BucketIndex(k2, capacity) = BucketIndex(call.key, capacity)
          /\ shadow[k2] # NULL

(***************************************************************************)
(* C5: hashmap_remove of a key that is not in the table returns NULL and   *)
(* changes nothing: length, capacity, the chains, the stored values and    *)
(* the allocated blocks are as before, and it calls no destructor and      *)
(* releases nothing.                                                       *)
(***************************************************************************)
C5_RemoveAbsentIsNoOp ==
    [][(call'.op = "remove" /\ ~Present(data, capacity, call'.key)) =>
         /\ call'.ret = NULL
         /\ call'.events = <<>>
         /\ data' = data
         /\ length' = length
         /\ capacity' = capacity
         /\ heap' = heap]_vars

\* a remove walked a chain that holds other keys and did not find its key
C5_Witness ==
    /\ call.op = "remove"
    /\ call.pos = 0
    /\ call.ret = NULL
    /\ data[BucketIndex(call.key, capacity)] # <<>>

C7_RemovePresent ==
    [][(call'.op = "remove" /\ Present(data, capacity, call'.key)) =>
         \E e \in Entries(data, capacity) :
            /\ e.key = call'.key
            /\ call'.ret = e.value
            /\ DtorCalls(call'.events) = {}
            /\ length' = length - 1
            /\ capacity' = capacity
            /\ Len(call'.events) = 2
            /\ CountEv(call'.events, Ev("free", KeyBlock(e.node))) = 1
            /\ CountEv(call'.events, Ev("free", EntryBlock(e.node))) = 1
            /\ heap' = heap \ {KeyBlock(e.node), EntryBlock(e.node)}
            /\ Entries(data', capacity') = Entries(data, capacity) \ {e}
            /\ NodeCount(data', capacity') = NodeCount(data, capacity) - 1
            /\ ~hashmap_has(data', capacity', call'.key)
            /\ hashmap_get(data', capacity', call'.key) = NULL]_vars

\* a remove took the head of a chain and returned its value; the rest of
\* the chain is still linked
C7_Witness ==
    /\ call.op = "remove"
    /\ call.pos = 1
    /\ call.ret # NULL
    /\ data[BucketIndex(call.key, capacity)] # <<>>

(***************************************************************************)
(* C8: hashmap_put_custom of a key that is in the table calls the          *)
(* destructor once on the old value, and not at all when the destructor is *)
(* NULL, puts the new value in the entry in place and changes nothing      *)
(* else: length, capacity, the entry's bucket and position, every other    *)
(* entry and the allocated blocks are as before, and the table does not    *)
(* grow.                                                                   *)
(***************************************************************************)
C8_OverwriteInPlace ==
    [][(call'.op = "put" /\ Present(data, capacity, call'.key)) =>
         /\ call'.events
               = IF call'.dtor
                 THEN <<Ev("dtor", hashmap_get(data, capacity, call'.key))>>
                 ELSE <<>>
         /\ ~call'.grew
         /\ length' = length
         /\ capacity' = capacity
         /\ heap' = heap
         /\ \A i \in 0..(capacity - 1) :
               /\ Len(data'[i]) = Len(data[i])
               /\ \A j \in 1..Len(data[i]) :
                     data'[i][j] = IF data[i][j].key = call'.key
                                   THEN [data[i][j] EXCEPT
                                            !.value = call'.value]
                                   ELSE data[i][j]]_vars

\* an overwrite with a destructor replaced the value of an entry that is
\* not the head of its chain
C8_Witness ==
    /\ call.op = "put"
    /\ call.pos >= 2
    /\ call.dtor
    /\ call.events # <<>>
    /\ call.events[1].what # call.value

(***************************************************************************)
(* C9: scanning a text terminates, and then the token sequence holds one   *)
(* end-of-input token, which is the last token, has length zero and lies   *)
(* at the final cursor position, the length of the text; every other token *)
(* has a non-empty span; and no end-of-input token is emitted before.      *)
(***************************************************************************)
EofTokens == {n \in 1..Len(tokens) : tokens[n].type = TOKEN_EOF}

ScanEnded ==
    /\ EofTokens = {Len(tokens)}
    /\ tokens[Len(tokens)].length = 0
    /\ tokens[Len(tokens)].index = index
    /\ index = Len(source)
    /\ \A n \in 1..(Len(tokens) - 1) : tokens[n].length >= 1
    /\ ~ENABLED LexNext

C9_ScanTerminatesWithOneEof ==
    /\ <>(pc = "done")
    /\ [](pc = "done" => ScanEnded)
    /\ [](pc = "scan" => EofTokens = {})

\* a scan of three bytes or more ended with several tokens
C9_Witness ==
    /\ pc = "done"
    /\ Len(source) >= 3
    /\ Len(tokens) >= 3
    /\ tokens[Len(tokens)].type = TOKEN_EOF
    /\ tokens[Len(tokens)].index = Len(source)

(***************************************************************************)
(* C10: a step of the scan that meets a lexical error (an unrecognized     *)
(* byte, a string the text ends in, a malformed number) appends one error  *)
(* token that starts at the cursor, and the scan goes on from the byte     *)
(* after the token's span; no other step appends an error token; and the   *)
(* scan reaches the end-of-input token all the same.                       *)
(***************************************************************************)
\* the numeric lexeme at cursor position from ends at position to
NumericLexeme(src, from, to) ==
    /\ from < to
    /\ to <= Len(src)
    /\ \A n \in (from + 1)..to : src[n] \in DigitChars \cup DotChars
    /\ to < Len(src) => src[to + 1] \notin DigitChars \cup DotChars

ErrorAt(src, from) ==
    LET c == src[from + 1]
    IN \/ c \notin WhitespaceChars \cup AlphaChars \cup DigitChars
                      \cup QuoteChars \cup OperatorChars
       \/ /\ c \in QuoteChars
          /\ \A n \in (from + 2)..Len(src) : src[n] \notin QuoteChars
       \/ /\ c \in DigitChars
          /\ \E to \in (from + 1)..Len(src) :
                /\ NumericLexeme(src, from, to)
                /\ \/ src[to] \in DotChars
                   \/ Cardinality({n \in (from + 1)..to :
                                      src[n] \in DotChars}) >= 2

C10_ErrorStep ==
    AtByte =>
       IF ErrorAt(source, index)
       THEN /\ Len(tokens') = Len(tokens) + 1
            /\ SubSeq(tokens', 1, Len(tokens)) = tokens
            /\ LET t == tokens'[Len(tokens')]
               IN /\ t.type = TOKEN_ERROR
                  /\ t.index = index
                  /\ t.start_line = line
                  /\ t.start_column = column
                  /\ t.length >= 1
                  /\ index' = index + t.length
                  /\ index' <= Len(source)
            /\ pc' = "scan"
       ELSE \A n \in (Len(tokens) + 1)..Len(tokens') :
               tokens'[n].type # TOKEN_ERROR

C10_ErrorsAreLocal ==
    /\ [][C10_ErrorStep]_vars
    /\ <>(pc = "done" /\ tokens[Len(tokens)].type = TOKEN_EOF)

\* the scan of @a"a ended: an error token for @, the identifier a, an error
\* token for the unterminated string, end-of-input
C10_Witness ==
    /\ pc = "done"
    /\ Len(tokens) = 4
    /\ tokens[1].type = TOKEN_ERROR
    /\ tokens[2].type = TOKEN_IDENTIFIER
    /\ tokens[3].type = TOKEN_ERROR
    /\ tokens[3].text[1] \in QuoteChars
    /\ tokens[3].index = 2
    /\ tokens[4].type = TOKEN_EOF

(***************************************************************************)
(* C14: the order of a bucket chain against the order of insertion         *)
(***************************************************************************)
\* the place of a key in the sequence of insertions; later is larger
InsertedAt(key) == CHOOSE n \in 1..Len(order) : order[n] = key

\* the entry at place p of the chain was inserted after the one at place q
MoreRecent(chain, p, q) ==
    InsertedAt(chain[p].key) > InsertedAt(chain[q].key)

\* C14 as stated: in every reachable state, of any two entries of one
\* bucket chain the one whose key was inserted more recently is the earlier
\* in the chain, growths included
C14_AsStated ==
    live =>
      \A bucket \in 0..(capacity - 1) :
         \A p, q \in 1..Len(data[bucket]) :
            MoreRecent(data[bucket], p, q) => p < q

\* C14, amended: in every reachable state, of any two entries of one bucket
\* chain the one whose key was inserted more recently is the earlier in the
\* chain, provided it was inserted after the last growth; the entries a
\* growth has moved (the one whose insertion caused it included) are in no
\* fixed order among themselves
C14_RecentFirstSinceGrowth ==
    live =>
      /\ KeysOf(order) = {e.key : e \in Entries(data, capacity)}
      /\ rehashed \subseteq KeysOf(order)
      /\ \A bucket \in 0..(capacity - 1) :
            \A p, q \in 1..Len(data[bucket]) :
               (/\ MoreRecent(data[bucket], p, q)
                /\ data[bucket][p].key \notin rehashed) => p < q

\* after a growth a key was inserted again: it heads a chain whose second
\* entry, inserted earlier, the growth had moved
C14_Witness ==
    /\ live
    /\ \E bucket \in 0..(capacity - 1) :
          /\ Len(data[bucket]) >= 2
          /\ data[bucket][1].key \notin rehashed
          /\ data[bucket][2].key \in rehashed
          /\ MoreRecent(data[bucket], 1, 2)

(***************************************************************************)
(* C15: every entry is in the bucket its key hashes to                     *)
(***************************************************************************)
\* C15: in every reachable state between calls, every entry is in the
\* bucket whose index is the hash of its key modulo the current capacity:
\* after inserts, overwrites, removes and growths
C15_EntriesInHashedBucket ==
    live =>
      /\ DOMAIN data = 0..(capacity - 1)
      /\ \A bucket \in 0..(capacity - 1) :
            \A p \in 1..Len(data[bucket]) :
               hash_function(data[bucket][p].key) % capacity = bucket

\* a put has just grown the table, whose entries are now in two buckets, one
\* of them other than the bucket the key had under the old capacity
C15_Witness ==
    /\ live
    /\ call.op = "put"
    /\ call.grew
    /\ \E b1, b2 \in 0..(capacity - 1) :
          /\ b1 # b2
          /\ data[b1] # <<>>
          /\ data[b2] # <<>>
          /\ hash_function(data[b1][1].key) % (capacity \div 2) # b1

(***************************************************************************)
(* C16: keys are unique                                                    *)
(***************************************************************************)
\* C16: in every reachable state no two entries of the table, in the same
\* bucket or in different ones, hold equal keys
C16_KeysUnique ==
    live =>
      \A b1, b2 \in 0..(capacity - 1) :
         \A p \in 1..Len(data[b1]), q \in 1..Len(data[b2]) :
            data[b1][p].key = data[b2][q].key => (b1 = b2 /\ p = q)

\* a key that is second in its chain has just been put again, in a table
\* that has grown
C16_Witness ==
    /\ live
    /\ call.op = "put"
    /\ call.pos = 2
    /\ capacity > MaxInitCap
    /\ length = 2

(***************************************************************************)
(* C17: when the capacity changes                                          *)
(***************************************************************************)
NewKeyPut == call'.op = "put" /\ call'.pos = 0

C17_Step ==
    /\ capacity' >= capacity
    /\ capacity' # capacity =>
          /\ NewKeyPut
          /\ length' = length + 1
          /\ 4 * length' >= 3 * capacity
          /\ capacity' = 2 * capacity
    /\ (NewKeyPut /\ 4 * length' >= 3 * capacity) => capacity' = 2 * capacity

\* the capacity is a capacity hashmap_create can be given, doubled some
\* number of times
C17_CapacityShape ==
    live => \E c \in 1..MaxInitCap, k \in 0..(NumKeys + 2) :
               capacity = c * 2^k

\* C17: the capacity changes only in a put that inserted a new key, exactly
\* when the resulting length is at least three quarters of the capacity,
\* and then it doubles; no other call changes it, so it never decreases and
\* is the initial capacity times a power of two
C17_GrowthOnlyOnInsert ==
    /\ []C17_CapacityShape
    /\ [][C17_Step]_vars

\* the table has just doubled for the second time at least
C17_Witness ==
    /\ live
    /\ call.op = "put"
    /\ call.grew
    /\ capacity >= 4
    /\ length >= 2

(***************************************************************************)
(* C18: hashmap_get and hashmap_has change nothing                         *)
(***************************************************************************)
C18_Step ==
    call'.op \in {"get", "has"} =>
       /\ UNCHANGED <<capacity, length, data, heap, live>>
       /\ call'.events = <<>>

\* C18: after hashmap_get or hashmap_has, of a present or an absent key,
\* the entry count, the capacity, every bucket chain with its order, every
\* stored value and the allocated blocks are as before the call, and no
\* destructor has run
C18_LookupsDoNotMutate == [][C18_Step]_vars

\* a lookup has found its key second in a chain
C18_Witness ==
    /\ live
    /\ call.op \in {"get", "has"}
    /\ call.pos = 2
    /\ Len(data[BucketIndex(call.key, capacity)]) = 2

(***************************************************************************)
(* C20: the length field counts the linked entries                         *)
(***************************************************************************)
C20_LengthCounts ==
    live =>
      /\ length = NodeCount(data, capacity)
      /\ length = Cardinality({e.key : e \in Entries(data, capacity)})

C20_Step ==
    /\ length' # length =>
          \/ NewKeyPut /\ length' = length + 1
          \/ call'.op = "remove" /\ call'.pos # 0 /\ length' = length - 1
    /\ NewKeyPut => length' = length + 1
    /\ (call'.op = "remove" /\ call'.pos # 0) => length' = length - 1

\* C20: in every reachable state between calls the length field is the
\* number of entry nodes linked in the bucket chains, and the number of
\* distinct keys; only a put of a new key increments it, only a remove of a
\* present key decrements it, and no other call changes it
C20_LengthIsNodeCount ==
    /\ []C20_LengthCounts
    /\ [][C20_Step]_vars

\* the entry that was second in a chain of two has just been removed from a
\* table that has grown
C20_Witness ==
    /\ live
    /\ call.op = "remove"
    /\ call.pos = 2
    /\ length >= 1
    /\ capacity > MaxInitCap

(***************************************************************************)
(* C11: operators are scanned greedily                                     *)
(***************************************************************************)
OperatorAt == AtByte /\ source[index + 1] \in OperatorChars

\* an operator form of n bytes is spelled at the cursor
FormAt(n) ==
    /\ index + n <= Len(source)
    /\ \E op \in Operators : op.text = SubSeq(source, index + 1, index + n)

GreedyLength == IF FormAt(3) THEN 3 ELSE IF FormAt(2) THEN 2 ELSE 1

LastToken(toks) == toks[Len(toks)]

OneTokenAppended ==
    /\ Len(tokens') = Len(tokens) + 1
    /\ SubSeq(tokens', 1, Len(tokens)) = tokens

C11_Step ==
    OperatorAt =>
       LET t == LastToken(tokens')
       IN /\ OneTokenAppended
          /\ t.index = index
          /\ t.length = GreedyLength
          /\ t.text = SubSeq(source, index + 1, index + GreedyLength)
          /\ index' = index + GreedyLength
          /\ \A op \in Operators : op.text = t.text => t.type = op.type
          /\ (GreedyLength = 1 /\ source[index + 1] \in SingleCharTokens)
                => t.type = source[index + 1]

IdentifierAt == AtByte /\ source[index + 1] \in AlphaChars

InKeywordTable(word) == \E n \in 1..Len(keywords) : keywords[n].name = word

C12_NamesDistinct ==
    \A m, n \in 1..Len(keywords) :
       keywords[m].name = keywords[n].name => m = n

C12_Step ==
    IdentifierAt =>
       LET t == LastToken(tokens')
           lexeme == Lexeme(source, index, RunEnd(source, index, AlnumChars))
       IN /\ OneTokenAppended
          /\ t.text = lexeme
          /\ \A n \in 1..Len(keywords) :
                keywords[n].name = lexeme => t.type = keywords[n].type
          /\ lexeme = <<116, 114, 117, 101>> =>
                /\ t.type = TOKEN_BOOLEAN
                /\ t.data.variant = "boolean"
                /\ t.data.value = TRUE
          /\ lexeme = <<102, 97, 108, 115, 101>> =>
                /\ t.type = TOKEN_BOOLEAN
                /\ t.data.variant = "boolean"
                /\ t.data.value = FALSE
          /\ ~InKeywordTable(lexeme) =>
                /\ t.type = TOKEN_IDENTIFIER
                /\ t.data.variant = "string"
                /\ t.data.value = lexeme

\* C12: a complete identifier lexeme that equals an entry of the keyword
\* table is emitted with that entry's type (the names of the table are
\* distinct, so its order does not matter); true and false are boolean
\* tokens with the payload true and false; any other lexeme, one that only
\* begins with a keyword included, is an identifier carrying its text
C12_KeywordsAndIdentifiers ==
    /\ []C12_NamesDistinct
    /\ [][C12_Step]_vars

\* the scan of "true false" ended: boolean true, boolean false, end-of-input
C12_Witness ==
    /\ pc = "done"
    /\ Len(tokens) = 3
    /\ tokens[1].type = TOKEN_BOOLEAN
    /\ tokens[1].data.value = TRUE
    /\ tokens[2].type = TOKEN_BOOLEAN
    /\ tokens[2].data.value = FALSE
    /\ tokens[3].type = TOKEN_EOF

(***************************************************************************)
(* C13: the spans of consecutive tokens                                    *)
(***************************************************************************)
\* position (l1, c1) is not after position (l2, c2)
NotAfter(l1, c1, l2, c2) == l1 < l2 \/ (l1 = l2 /\ c1 <= c2)

\* C13: in the token sequence of a scan the spans of consecutive tokens do
\* not overlap and are in strictly increasing order: a token ends, in bytes
\* and in line and column, no later than the next one starts
C13_SpansInOrder ==
    \A i \in 1..(Len(tokens) - 1) :
       /\ tokens[i].index + tokens[i].length <= tokens[i + 1].index
       /\ tokens[i].index < tokens[i + 1].index
       /\ NotAfter(tokens[i].end_line, tokens[i].end_column,
                   tokens[i + 1].start_line, tokens[i + 1].start_column)

\* the scan of x = 12 + 3.5 ended: identifier, assign, integer 12, plus,
\* float 3.5, end-of-input
C13_Witness ==
    /\ pc = "done"
    /\ Len(tokens) = 6
    /\ tokens[1].type = TOKEN_IDENTIFIER
    /\ tokens[2].type = TOKEN_ASSIGN
    /\ tokens[3].type = TOKEN_NUMBER_INT
    /\ tokens[3].data.value = 12
    /\ tokens[4].type = TOKEN_PLUS
    /\ tokens[5].type = TOKEN_NUMBER_FLOAT
    /\ tokens[5].data.value = [num |-> 35, den |-> 10]
    /\ tokens[5].index = 9
    /\ tokens[6].type = TOKEN_EOF
    /\ tokens[6].index = 12

(***************************************************************************)
(* C19: the cursor, the line and the column                                *)
(***************************************************************************)
C19_Step ==
    LET consumed == SubSeq(source, index + 1, index')
        newlines == {n \in 1..Len(consumed) : consumed[n] \in NewlineChars}
        last == CHOOSE n \in newlines : \A m \in newlines : m <= n
    IN /\ index' >= index
       /\ line' = line + Cardinality(newlines)
       /\ column' = IF newlines = {} THEN column + Len(consumed)
                                     ELSE 1 + (Len(consumed) - last)
       /\ (AtByte /\ source[index + 1] \in WhitespaceChars) =>
             /\ index' > index
             /\ tokens' = tokens

\* C19: in a scan the byte cursor never decreases from one step to the
\* next; the line grows by one and the column starts again for each newline
\* consumed, and for any other byte consumed the line is unchanged and the
\* column grows by one; whitespace moves the cursor and appends no token
C19_CursorAndLines == [][C19_Step]_vars

\* an identifier, then a newline skipped: line 2, column 1, one token
C19_Witness ==
    /\ pc = "scan"
    /\ index = 2
    /\ source[index] \in NewlineChars
    /\ line = 2
    /\ column = 1
    /\ Len(tokens) = 1

(***************************************************************************)
(* C21: no stored value has been destroyed                                 *)
(***************************************************************************)
\* C21: after any sequence of hashmap_put_custom calls with a destructor
\* and hashmap_remove calls, whatever values the caller passes, no value
\* stored in the table has been passed to a destructor, a key overwritten
\* with the value it already holds included; so hashmap_destroy_custom
\* destroys no value a second time
C21_StoredValuesNotDestroyed ==
    live => StoredValues \cap destroyed = {}

====
